---- MODULE Spec2Model ----
(***************************************************************************)
(* Model of telegram2rss.channel.TGChannel: the session cursor             *)
(* (self.position), the page loop of fetch_to_python, and the decoding of  *)
(* the collected message bubbles.                                          *)
(***************************************************************************)
EXTENDS Integers, Sequences, FiniteSets, TLC

\* ---------------------------------------------------------------- bounds
\* fetch_to_python calls per session
MaxCalls == 3
\* largest pages_to_fetch argument
MaxPages == 2
\* transport requests per session
MaxRequests == 3
\* message bubbles the transport serves per session
MaxMsgs == 3
\* message bubbles on one page
MaxBubbles == 2

\* ------------------------------------------------------------- constants
NoneVal == "None"                 \* Python None
Tokens == {"0", "a"}              \* data-before values a page may carry

\* The pagination control of a page: the element is absent, the element is
\* present without a data-before attribute, or it carries a token.
Controls ==
  {[kind |-> "absent", token |-> NoneVal], [kind |-> "noattr", token |-> NoneVal]}
    \cup {[kind |-> "token", token |-> t] : t \in Tokens}

NoControl == [kind |-> "none", token |-> NoneVal]

\* ------------------------------------------------------------- fragments
Node(kind, st) == [kind |-> kind, st |-> st]

Meta(number, author, date, views, voters, nodes) ==
  [number |-> number, author |-> author, date |-> date,
   views |-> views, voters |-> voters, nodes |-> nodes]

\* The markup of one message bubble, by shape name.
Fragment(shape) ==
  CASE shape = "plain" ->
         Meta("ok", "ok", "ok", "ok", "absent", <<Node("text", "ok")>>)
    [] shape = "bare" ->
         Meta("ok", "ok", "ok", "absent", "absent", <<>>)
    [] shape = "media" ->
         Meta("ok", "ok", "ok", "ok", "ok",
              <<Node("unsupported_media", "ok"), Node("poll", "ok"),
                Node("photo", "ok"), Node("text", "ok"),
                Node("location", "ok"), Node("document", "ok"),
                Node("video", "ok"), Node("photo", "ok")>>)
    [] shape = "no_number" ->
         Meta("absent", "ok", "ok", "ok", "absent", <<Node("text", "ok")>>)
    [] shape = "no_author" ->
         Meta("ok", "absent", "ok", "ok", "absent", <<Node("text", "ok")>>)
    [] shape = "no_date" ->
         Meta("ok", "ok", "absent", "ok", "absent", <<Node("text", "ok")>>)
    [] shape = "photo_nostyle" ->
         Meta("ok", "ok", "ok", "ok", "absent",
              <<Node("text", "ok"), Node("photo", "ok"),
                Node("photo", "noattr"), Node("photo", "ok")>>)
    [] shape = "video_nothumb" ->
         Meta("ok", "ok", "ok", "ok", "absent",
              <<Node("video", "nothumb"), Node("video", "ok")>>)
    [] shape = "video_noduration" ->
         Meta("ok", "ok", "ok", "ok", "absent",
              <<Node("video", "noduration"), Node("text", "ok")>>)
    [] shape = "location_noq" ->
         Meta("ok", "ok", "ok", "ok", "absent",
              <<Node("location", "noq"), Node("text", "ok")>>)
    [] shape = "location_noz" ->
         Meta("ok", "ok", "ok", "ok", "absent",
              <<Node("location", "noz"), Node("location", "ok")>>)
    [] shape = "voice" ->
         Meta("ok", "ok", "ok", "ok", "absent",
              <<Node("text", "ok"), Node("voice", "ok")>>)
    [] shape = "unsupported_nohref" ->
         Meta("ok", "ok", "ok", "ok", "absent",
              <<Node("text", "ok"), Node("unsupported_media", "noattr"),
                Node("unsupported_media", "ok")>>)
    [] shape = "unsupported_nolink" ->
         Meta("ok", "ok", "ok", "ok", "absent",
              <<Node("text", "ok"), Node("unsupported_media", "absent"),
                Node("unsupported_media", "ok")>>)

MissingMetadataShapes == {"no_number", "no_author", "no_date"}
MalformedMediaShapes ==
  {"photo_nostyle", "video_nothumb", "video_noduration",
   "location_noq", "location_noz"}
UnsupportedNoLinkShapes == {"unsupported_nohref", "unsupported_nolink"}
WellFormedShapes == {"plain", "bare", "media"}

AllShapes ==
  WellFormedShapes \cup MissingMetadataShapes \cup MalformedMediaShapes
    \cup UnsupportedNoLinkShapes \cup {"voice"}

\* The shapes the transport serves in the session model.
Shapes ==
  {"plain", "no_number", "photo_nostyle", "unsupported_nohref",
   "unsupported_nolink"}

\* --------------------------------------------------------------- decoder
\* The fixed order in which the content kinds are extracted.
KindOrder ==
  <<"text", "photo", "video", "voice", "document", "location", "poll",
    "unsupported_media">>

\* The exception raised while reading the required metadata, "none" if none.
MetaError(f) ==
  IF f.number = "absent" THEN "TypeError"
  ELSE IF f.number = "noattr" THEN "KeyError"
  ELSE IF f.number = "short" THEN "IndexError"
  ELSE IF f.author = "absent" THEN "AttributeError"
  ELSE IF f.date = "absent" THEN "TypeError"
  ELSE IF f.date = "noattr" THEN "KeyError"
  ELSE "none"

\* views and voters: AttributeError is caught and the field is None.
OptionalField(st) == IF st = "ok" THEN "ok" ELSE NoneVal

\* The exception raised while extracting one content node, "none" if none.
NodeError(n) ==
  CASE n.kind = "text" -> "none"
    [] n.kind = "photo" ->
         IF n.st = "noattr" THEN "KeyError"
         ELSE IF n.st = "noquote" THEN "IndexError" ELSE "none"
    [] n.kind = "video" ->
         IF n.st = "nohref" THEN "KeyError"
         ELSE IF n.st = "nothumb" THEN "TypeError"
         ELSE IF n.st = "thumbnostyle" THEN "KeyError"
         ELSE IF n.st = "noduration" THEN "AttributeError" ELSE "none"
    [] n.kind = "voice" -> "TypeError"
    [] n.kind = "document" ->
         IF n.st = "nohref" THEN "KeyError" ELSE "none"
    [] n.kind = "location" ->
         IF n.st \in {"nohref", "noq", "noz"} THEN "KeyError"
         ELSE IF n.st = "nocomma" THEN "ValueError" ELSE "none"
    [] n.kind = "poll" ->
         IF n.st \in {"noquestion", "notype", "nooption"}
         THEN "AttributeError" ELSE "none"
    [] n.kind = "unsupported_media" ->
         IF n.st = "noattr" THEN "KeyError"
         ELSE IF n.st = "absent" THEN "TypeError" ELSE "none"

\* The only handler inside the content loops: except KeyError: continue.
Caught(kind, e) == kind = "unsupported_media" /\ e = "KeyError"

Item(kind, i) == [type |-> kind, node |-> i]

\* One "for x in bubble.select(KIND.selector)" loop, from node i on.
RECURSIVE ExtractKind(_, _, _)
ExtractKind(nodes, kind, i) ==
  IF i > Len(nodes) THEN [err |-> "none", items |-> <<>>]
  ELSE IF nodes[i].kind # kind THEN ExtractKind(nodes, kind, i + 1)
  ELSE LET e == NodeError(nodes[i]) IN
       IF e # "none" /\ ~Caught(kind, e) THEN [err |-> e, items |-> <<>>]
       ELSE LET rest == ExtractKind(nodes, kind, i + 1) IN
            [err |-> rest.err,
             items |-> IF rest.err # "none" THEN <<>>
                       ELSE (IF e = "none" THEN <<Item(kind, i)>> ELSE <<>>)
                              \o rest.items]

\* The content loops in their fixed order, from the k-th kind on.
RECURSIVE ExtractContents(_, _)
ExtractContents(nodes, k) ==
  IF k > Len(KindOrder) THEN [err |-> "none", items |-> <<>>]
  ELSE LET r == ExtractKind(nodes, KindOrder[k], 1) IN
       IF r.err # "none" THEN r
       ELSE LET rest == ExtractContents(nodes, k + 1) IN
            [err |-> rest.err,
             items |-> IF rest.err # "none" THEN <<>> ELSE r.items \o rest.items]

NoMessage == [id |-> 0, page |-> 0, views |-> NoneVal, voters |-> NoneVal,
              contents |-> <<>>]

\* One iteration of "for bubble in all_bubbles".
DecodeBubble(b) ==
  LET f == Fragment(b.shape)
      me == MetaError(f)
  IN IF me # "none" THEN [err |-> me, message |-> NoMessage]
     ELSE LET c == ExtractContents(f.nodes, 1) IN
          IF c.err # "none" THEN [err |-> c.err, message |-> NoMessage]
          ELSE [err |-> "none",
                message |-> [id |-> b.id, page |-> b.page,
                             views |-> OptionalField(f.views),
                             voters |-> OptionalField(f.voters),
                             contents |-> c.items]]

\* The whole decoding loop: the first exception aborts the call.
RECURSIVE DecodeMessages(_)
DecodeMessages(bubbles) ==
  IF bubbles = <<>> THEN [err |-> "none", messages |-> <<>>]
  ELSE LET d == DecodeBubble(Head(bubbles)) IN
       IF d.err # "none" THEN [err |-> d.err, messages |-> <<>>]
       ELSE LET rest == DecodeMessages(Tail(bubbles)) IN
            [err |-> rest.err,
             messages |-> IF rest.err # "none" THEN <<>>
                          ELSE <<d.message>> \o rest.messages]

\* ----------------------------------------------------------------- pager
IsExhausted_NoneToo(pos) == pos \in {"0", NoneVal}

\* if self.position == "0": raise FeedEnd
IsExhausted(pos) == pos = "0"

\* all_bubbles = [] at the start of a call
InitialBubbles(old) == <<>>

NextPosition_MissingKeepsNone(control) ==
  IF control.kind = "token" THEN control.token ELSE NoneVal

\* The try block: the cursor the page leaves in self.position.
NextPosition(control) ==
  IF control.kind = "token" THEN control.token ELSE "0"

\* Only the KeyError handler breaks out of the page loop.
BreaksLoop(control) == control.kind = "noattr"

\* bubbles.reverse()
RECURSIVE Reverse(_)
Reverse(s) == IF s = <<>> THEN <<>> ELSE Reverse(Tail(s)) \o <<Head(s)>>

PageBubbles_NoReverse(raw) == raw

PageBubbles(raw) == Reverse(raw)

\* ----------------------------------------------------------------- state
VARIABLES
  position,        \* self.position
  pc,              \* "idle", "loop" (page loop), "decode"
  remaining,       \* iterations left of range(pages_to_fetch)
  all_bubbles,     \* the local all_bubbles of the current or last call
  outcome,         \* how the last call ended and what it returned
  calls,           \* calls made on the session
  pages_to_fetch,  \* argument of the current or last call
  start_position,  \* self.position when the current or last call began
  n_requests,      \* transport requests made on the session
  call_requests,   \* transport requests made by the current or last call
  last_before,     \* "before" parameter of the latest request
  last_control,    \* pagination control of the latest page returned
  last_raw,        \* bubbles of the latest page returned, document order
  served           \* message bubbles served on the session

vars == <<position, pc, remaining, all_bubbles, outcome, calls,
          pages_to_fetch, start_position, n_requests, call_requests,
          last_before, last_control, last_raw, served>>

Outcome(kind, error, messages) ==
  [kind |-> kind, error |-> error, messages |-> messages]

Init ==
  /\ position = NoneVal
  /\ pc = "idle"
  /\ remaining = 0
  /\ all_bubbles = <<>>
  /\ outcome = Outcome("none", "none", <<>>)
  /\ calls = 0
  /\ pages_to_fetch = 0
  /\ start_position = NoneVal
  /\ n_requests = 0
  /\ call_requests = 0
  /\ last_before = NoneVal
  /\ last_control = NoControl
  /\ last_raw = <<>>
  /\ served = 0

\* fetch_to_python(n) is entered: FeedEnd, or the page loop starts.
Call(n) ==
  /\ pc = "idle"
  /\ calls < MaxCalls
  /\ n_requests + n <= MaxRequests
  /\ calls' = calls + 1
  /\ pages_to_fetch' = n
  /\ start_position' = position
  /\ call_requests' = 0
  /\ IF IsExhausted(position)
     THEN /\ outcome' = Outcome("FeedEnd", "FeedEnd", <<>>)
          /\ pc' = "idle"
          /\ remaining' = 0
          /\ all_bubbles' = <<>>
     ELSE /\ outcome' = Outcome("pending", "none", <<>>)
          /\ pc' = IF n = 0 THEN "decode" ELSE "loop"
          /\ remaining' = n
          /\ all_bubbles' = InitialBubbles(all_bubbles)
  /\ UNCHANGED <<position, n_requests, last_before, last_control, last_raw,
                 served>>

\* The bubbles of a served page: fresh ids in feed order (1 is the newest).
RawPage(shapes, first, page) ==
  [i \in 1..Len(shapes) |->
     [id |-> first + i, page |-> page, shape |-> shapes[i]]]

PageShapes ==
  UNION {[1..k -> Shapes] : k \in 0..MaxBubbles}

\* One iteration of the page loop: request, read the control, collect.
FetchPage(control, shapes) ==
  /\ pc = "loop"
  /\ served + Len(shapes) <= MaxMsgs
  /\ LET raw == RawPage(shapes, served, n_requests + 1) IN
     /\ last_before' = position
     /\ last_control' = control
     /\ last_raw' = raw
     /\ n_requests' = n_requests + 1
     /\ call_requests' = call_requests + 1
     /\ served' = served + Len(shapes)
     /\ position' = NextPosition(control)
     /\ IF BreaksLoop(control)
        THEN /\ all_bubbles' = all_bubbles
             /\ remaining' = 0
             /\ pc' = "decode"
        ELSE /\ all_bubbles' = all_bubbles \o PageBubbles(raw)
             /\ remaining' = remaining - 1
             /\ pc' = IF remaining = 1 THEN "decode" ELSE "loop"
  /\ UNCHANGED <<outcome, calls, pages_to_fetch, start_position>>

\* The decoding loop and the return (or the exception that ends the call).
Decode ==
  /\ pc = "decode"
  /\ LET d == DecodeMessages(all_bubbles) IN
     outcome' = IF d.err = "none" THEN Outcome("ok", "none", d.messages)
                ELSE Outcome("error", d.err, <<>>)
  /\ pc' = "idle"
  /\ UNCHANGED <<position, remaining, all_bubbles, calls, pages_to_fetch,
                 start_position, n_requests, call_requests, last_before,
                 last_control, last_raw, served>>

Next ==
  \/ \E n \in 0..MaxPages : Call(n)
  \/ \E control \in Controls : \E shapes \in PageShapes :
       FetchPage(control, shapes)
  \/ Decode

Spec == Init /\ [][Next]_vars

\* The decoder on its own: the first call, for one page of any markup, has
\* left the page loop and is about to decode.
InitDecoder ==
  \E control \in Controls \ {[kind |-> "noattr", token |-> NoneVal]} :
    \E shapes \in UNION {[1..k -> AllShapes] : k \in 0..MaxBubbles} :
      /\ position = NextPosition(control)
      /\ pc = "decode"
      /\ remaining = 0
      /\ all_bubbles = PageBubbles(RawPage(shapes, 0, 1))
      /\ outcome = Outcome("pending", "none", <<>>)
      /\ calls = 1
      /\ pages_to_fetch = 1
      /\ start_position = NoneVal
      /\ n_requests = 1
      /\ call_requests = 1
      /\ last_before = NoneVal
      /\ last_control = control
      /\ last_raw = RawPage(shapes, 0, 1)
      /\ served = Len(shapes)

NextDecoder == Decode

SpecDecoder == InitDecoder /\ [][NextDecoder]_vars

\* ---------------------------------------------------------------- claims
Ids(s) == [i \in 1..Len(s) |-> s[i].id]

IsWellFormed(b) == b.shape \in WellFormedShapes

Finished == pc = "idle" /\ outcome.kind \in {"ok", "error"}

ShapesWithin(S) == \A i \in 1..Len(all_bubbles) : all_bubbles[i].shape \in S

\* Every node of the fragment that is intact has its item in the message.
IntactNodesExtracted(m, f) ==
  \A i \in 1..Len(f.nodes) :
    f.nodes[i].st = "ok" =>
      \E j \in 1..Len(m.contents) :
        m.contents[j] = [type |-> f.nodes[i].kind, node |-> i]

\* Every collected bubble has its message, in order, with its intact items.
AllMessagesReturned ==
  /\ outcome.kind = "ok"
  /\ Ids(outcome.messages) = Ids(all_bubbles)
  /\ \A i \in 1..Len(all_bubbles) :
       IntactNodesExtracted(outcome.messages[i], Fragment(all_bubbles[i].shape))

\* C1: once the cursor is "0" it stays "0": exhaustion is sticky, also
\* through the further pages of the same call.
C1_ExhaustionSticky == [][position = "0" => position' = "0"]_vars

\* C2: when a page of a call that has pages left has no pagination control,
\* no further transport request is made in that call.
C2_MissingControlStopsLoop ==
  [][(pc = "loop" /\ call_requests >= 1 /\ last_control.kind = "absent")
       => n_requests' = n_requests]_vars

\* C3: a call ends with FeedEnd exactly when the cursor was "0" when it
\* began, and then it made no request, returned nothing and left the cursor.
C3_FeedEndIffExhaustedAtStart ==
  calls > 0 =>
    /\ (outcome.kind = "FeedEnd") <=> (start_position = "0")
    /\ outcome.kind = "FeedEnd" =>
         /\ pc = "idle"
         /\ call_requests = 0
         /\ outcome.messages = <<>>
         /\ position = start_position

C3_Witness ==
  /\ outcome.kind = "FeedEnd"
  /\ calls >= 2
  /\ n_requests >= 1

C5_ExhaustionPageReturned ==
  (pc = "idle" /\ outcome.kind = "ok" /\ call_requests >= 1
     /\ last_control.kind \in {"absent", "noattr"}) =>
    \A i \in 1..Len(last_raw) :
      \E j \in 1..Len(outcome.messages) :
        outcome.messages[j].id = last_raw[i].id

\* C6: a bubble without required metadata is dropped alone: the call
\* returns the messages of all the other bubbles, in order.
C6_MissingMetadataDropsOnlyMessage ==
  (Finished /\ ShapesWithin(WellFormedShapes \cup MissingMetadataShapes)) =>
    /\ outcome.kind = "ok"
    /\ Ids(outcome.messages) = Ids(SelectSeq(all_bubbles, IsWellFormed))

\* C7: a malformed photo, video or location node is skipped alone: the
\* message is returned with every intact item and the call returns normally.
C7_MalformedMediaSkipsOnlyItem ==
  (Finished /\ ShapesWithin(WellFormedShapes \cup MalformedMediaShapes)) =>
    AllMessagesReturned

\* C8: an unsupported-media node without a link, the link element lacking
\* href or missing, yields no item and no error.
C8_UnsupportedWithoutLinkSilent ==
  (Finished /\ ShapesWithin(WellFormedShapes \cup UnsupportedNoLinkShapes)) =>
    /\ AllMessagesReturned
    /\ \A i \in 1..Len(all_bubbles) :
         \A j \in 1..Len(outcome.messages[i].contents) :
           LET it == outcome.messages[i].contents[j] IN
           Fragment(all_bubbles[i].shape).nodes[it.node].st = "ok"

\* C9: the first request carries no "before"; every later one carries the
\* token read from the control of the page the preceding request returned.
C9_CursorChaining ==
  [][n_requests' = n_requests + 1 =>
       IF n_requests = 0 THEN last_before' = NoneVal
       ELSE /\ last_control.kind = "token"
            /\ last_before' = last_control.token]_vars

\* C10: a call aborted by a decoding error leaves the cursor where the last
\* requested page put it and returns nothing; no later call returns a
\* message of a page requested before that call began.
C10_CursorCommittedBeforeDecoding ==
  /\ (pc = "idle" /\ outcome.kind = "error") =>
       /\ call_requests >= 1
       /\ position = IF last_control.kind = "token"
                     THEN last_control.token ELSE "0"
       /\ outcome.messages = <<>>
  /\ \A i \in 1..Len(outcome.messages) :
       outcome.messages[i].page > n_requests - call_requests

C10_Witness ==
  /\ pc = "idle"
  /\ outcome.kind = "error"
  /\ calls >= 2
  /\ start_position = "a"
  /\ position = "0"
  /\ Len(all_bubbles) >= 2

TypeOK ==
  /\ position \in {NoneVal} \cup Tokens
  /\ pc \in {"idle", "loop", "decode"}
  /\ remaining \in 0..MaxPages
  /\ calls \in 0..MaxCalls
  /\ n_requests \in 0..MaxRequests
  /\ served \in 0..MaxMsgs
====
